---- MODULE Spec2Model ----
(***************************************************************************)
(* Model of pymoo/model/algorithm.py: the Algorithm life cycle             *)
(* (__init__, initialize, solve, next, _solve, _each_iteration,            *)
(* _set_optimum, finalize) and the pure function filter_optimum.           *)
(*                                                                         *)
(* Python's None is modelled as the empty tuple None == <<>> and a value   *)
(* v that may be None as Some(v) == <<v>>, for fields holding numbers or   *)
(* collections; fields holding opaque objects (termination, callback,      *)
(* display) are strings and their None is the string "None".               *)
(*                                                                         *)
(* solve() is followed through its positions (pc): each call of a hook or  *)
(* of a collaborator is a step of its own; the display and the callback    *)
(* return, copy.deepcopy may fail.  The fields pf, evaluator and   *)
(* data and the time stamps of the Result play no part in the control      *)
(* flow and are left out.  The problem, the evaluator and the concrete     *)
(* algorithm behind the hooks _initialize and _next are the environment:   *)
(* a hook either fails or replaces pop by evaluated individuals.           *)
(***************************************************************************)
EXTENDS Integers, Sequences, FiniteSets, TLC

VARIABLES
    pc,                       \* position of the caller / of solve()
    callback,                 \* self.callback
    display,                  \* self.display
    return_least_infeasible,  \* self.return_least_infeasible
    problem,                  \* self.problem
    termination,              \* self.termination
    default_termination,      \* self.default_termination
    seed,                     \* self.seed
    n_gen,                    \* self.n_gen
    save_history,             \* self.save_history
    history,                  \* self.history
    pop,                      \* self.pop
    opt,                      \* self.opt
    verbose,                  \* self.verbose
    res,                      \* the Result returned by solve()
    log,                      \* the calls made so far, in order
    args,                     \* the arguments of the last initialize()
    rng,                      \* the state of the global random source np.random
    fpop, fli, fret           \* a direct call ret = filter_optimum(pop, li)

vars == <<pc, callback, display, return_least_infeasible, problem, termination,
          default_termination, seed, n_gen, save_history, history, pop, opt,
          verbose, res, log, args, rng, fpop, fli, fret>>

algo == <<callback, display, return_least_infeasible, problem, termination,
          default_termination, seed, n_gen, save_history, history, pop, opt,
          verbose>>

filt == <<fpop, fli, fret>>

-----------------------------------------------------------------------------
(* Bounds *)

MaxF == 2          \* objective values given to filter_optimum are 1..MaxF
MaxCV == 2         \* constraint violations given to filter_optimum are 0..MaxCV
MaxPop == 2        \* length of the populations given to filter_optimum
MaxX == 2          \* decision values of a problem are 1..MaxX
MaxRunPop == 2     \* length of the populations the hooks produce
MaxGen == 2        \* the termination stops the run at this generation
MaxSeed == 2       \* np.random.randint draws from 0..MaxSeed-1

\* numbers of objectives: the code tells one objective from more than one
ObjectiveCounts == {1, 2}

-----------------------------------------------------------------------------
(* None / optional values *)

None == <<>>
Some(v) == <<v>>
Val(o) == o[1]

-----------------------------------------------------------------------------
(* Individual and Population *)

\* an evaluated individual; G is the constraint vector behind CV
Individual(x, f, cv) == [X |-> <<x>>, F |-> f, CV |-> <<cv>>, G |-> <<cv>>]

\* what evaluating an individual gives, for n objectives
Evaluations(n) == [F : [1..n -> 1..MaxF], CV : 0..MaxCV]

\* ind.feasible
feasible(ind) == ind.CV[1] <= 0

\* the non-empty sequences of at most k elements of S
SeqsUpTo(S, k) == UNION {[1..m -> S] : m \in 1..k}

\* the population of the evaluations e: its i-th individual has the decision
\* vector <<i>>
Evaluated(e) == [i \in 1..Len(e) |-> Individual(i, e[i].F, e[i].CV)]

\* pop.get(key): one row per individual
get(p, key) ==
    [i \in 1..Len(p) |->
        CASE key = "X" -> p[i].X
          [] key = "F" -> p[i].F
          [] key = "CV" -> p[i].CV
          [] key = "G" -> p[i].G]

\* pop[I] for a list of indices I
Index(p, I) == [k \in 1..Len(I) |-> p[I[k]]]

\* pop[mask] for a boolean mask
RECURSIVE Mask(_, _)
Mask(p, m) ==
    IF Len(p) = 0 THEN <<>>
    ELSE IF m[1] THEN <<Head(p)>> \o Mask(Tail(p), Tail(m))
         ELSE Mask(Tail(p), Tail(m))

\* an argmin that returns the last index of the minimum
argmin_Last(v) ==
    CHOOSE i \in 1..Len(v) :
        /\ \A j \in 1..Len(v) : v[i] <= v[j]
        /\ \A j \in (i + 1)..Len(v) : v[j] > v[i]

\* np.argmin over a sequence of numbers: the first index of the minimum
argmin(v) ==
    CHOOSE i \in 1..Len(v) :
        /\ \A j \in 1..Len(v) : v[i] <= v[j]
        /\ \A j \in 1..(i - 1) : v[j] > v[i]

\* np.any over a sequence of booleans
any(v) == \E i \in 1..Len(v) : v[i]

-----------------------------------------------------------------------------
(* Non-dominated sorting service *)

Dominates(a, b) ==
    /\ \A k \in 1..Len(a) : a[k] <= b[k]
    /\ \E k \in 1..Len(a) : a[k] < b[k]

RECURSIVE Ascending(_, _)
Ascending(S, n) ==
    IF n = 0 THEN <<>>
    ELSE IF n \in S THEN Append(Ascending(S, n - 1), n) ELSE Ascending(S, n - 1)

\* NonDominatedSorting().do(F, only_non_dominated_front=True)
NonDominatedSorting(F) ==
    Ascending({i \in 1..Len(F) : \A j \in 1..Len(F) : ~Dominates(F[j], F[i])}, Len(F))

-----------------------------------------------------------------------------
(* filter_optimum *)

\* the values a population-valued name can hold: None, a Population, or a
\* bare Individual (what indexing a Population with one integer gives)
NoneObj == [kind |-> "None", inds |-> <<>>]
Population(s) == [kind |-> "Population", inds |-> s]
IndividualObj(ind) == [kind |-> "Individual", inds |-> <<ind>>]

\* isinstance(ret, Individual)
isIndividual(o) == o.kind = "Individual"

\* len(pop)
len(o) == Len(o.inds)

\* lines 305-327 without the feasibility mask of line 305
filter_ret_NoFeasibleMask(p, least_infeasible) ==
    LET ret == p
    IN  IF Len(ret) > 0
        THEN LET F == get(ret, "F")
             IN  IF Len(F[1]) > 1
                 THEN Population(Index(ret, NonDominatedSorting(F)))
                 ELSE IndividualObj(ret[argmin([i \in 1..Len(F) |-> F[i][1]])])
        ELSE NoneObj

\* lines 305-327: ret before the isinstance test
filter_ret(p, least_infeasible) ==
    LET ret == Mask(p, [i \in 1..Len(p) |-> feasible(p[i])])
    IN  IF Len(ret) > 0
        THEN LET F == get(ret, "F")
             IN  IF Len(F[1]) > 1
                 THEN Population(Index(ret, NonDominatedSorting(F)))
                 ELSE IndividualObj(ret[argmin([i \in 1..Len(F) |-> F[i][1]])])
        ELSE IF least_infeasible
             THEN LET CV == get(p, "CV")
                  IN  IndividualObj(p[argmin([i \in 1..Len(CV) |-> CV[i][1]])])
             ELSE NoneObj

\* filter_optimum that takes least_infeasible for enabled
filter_optimum_AlwaysLeastInfeasible(p, least_infeasible) ==
    LET ret == filter_ret(p.inds, TRUE)
    IN  IF isIndividual(ret) THEN Population(ret.inds) ELSE ret

\* filter_optimum(pop, least_infeasible), pop a non-empty Population
filter_optimum(p, least_infeasible) ==
    LET ret == filter_ret(p.inds, least_infeasible)
    IN  IF isIndividual(ret) THEN Population(ret.inds) ELSE ret

-----------------------------------------------------------------------------
(* Problems and the populations the hooks produce *)

\* a problem: n_obj objectives over the decision values 1..MaxX, which all
\* grow with x ("aligned") or of which every second one falls with x
\* ("tradeoff"), and the constraint x >= c
Problems ==
    {p \in [n_obj : ObjectiveCounts, kind : {"aligned", "tradeoff"}, c : 1..(MaxX + 1)] :
        p.n_obj = 1 => p.kind = "aligned"}

\* the objectives and the constraint violation of x
objectives(prob, x) ==
    [k \in 1..prob.n_obj |->
        IF prob.kind = "tradeoff" /\ k % 2 = 0 THEN MaxX + 1 - x ELSE x]

violation(prob, x) == IF x < prob.c THEN prob.c - x ELSE 0

\* Evaluator.eval(problem, pop): the individuals of decision values xs
evaluate(prob, xs) ==
    Population([i \in 1..Len(xs) |->
                    Individual(xs[i], objectives(prob, xs[i]), violation(prob, xs[i]))])

\* the decision values a hook may put in pop (possibly none)
Designs == {<<>>} \cup SeqsUpTo(1..MaxX, MaxRunPop)

\* the same with at most one individual
SingleDesigns == {<<>>} \cup SeqsUpTo(1..MaxX, 1)

-----------------------------------------------------------------------------
(* Algorithm.__init__ *)

Callbacks == {"None", "function", "Callback"}
Displays == {"None", "display"}
Terminations == {"None", "T1", "T2"}
DefaultTerminations == {"None", "Tdefault"}

\* the states the global random source may be in before initialize()
RngStates == 0..(MaxSeed - 1)

NotCalled == [kind |-> "NotCalled", inds |-> <<>>]
NoArray == [ndim |-> 0, rows |-> <<>>]

\* the state after Algorithm(callback, display, termination,
\* return_least_infeasible); a subclass constructor may set
\* default_termination
__init__(cb, disp, term, rli, dterm) ==
    /\ pc = "constructed"
    /\ callback = cb
    /\ display = disp
    /\ return_least_infeasible = rli
    /\ problem = None
    /\ termination = term
    /\ default_termination = dterm
    /\ seed = None
    /\ n_gen = None
    /\ save_history = None
    /\ history = None
    /\ pop = NoneObj
    /\ opt = NoneObj
    /\ verbose = None
    /\ res = None
    /\ log = <<>>
    /\ args = None
    /\ rng \in RngStates

-----------------------------------------------------------------------------
(* Algorithm.initialize *)

\* np.random.seed(s) skipped: the global source keeps its state r
random_seed_Skipped(r, s) == r

\* np.random.seed(s): the state of the global source after seeding it with s
random_seed(r, s) == s

initialize(prob, term, sd, vb, sh) ==
    /\ pc \in {"constructed", "initialized"}
    /\ verbose' = Some(vb)
    /\ problem' = Some(prob)
    /\ LET t1 == IF termination = "None" THEN term ELSE termination
       IN  termination' = IF t1 = "None" THEN default_termination ELSE t1
    /\ IF sd = None
       THEN \E r \in 0..(MaxSeed - 1) : seed' = Some(r)
       ELSE seed' = sd
    /\ save_history' = Some(sh)
    /\ n_gen' = None
    /\ history' = Some(<<>>)
    /\ pop' = NoneObj
    /\ opt' = NoneObj
    /\ args' = Some([termination |-> term, seed |-> sd])
    /\ pc' = "initialized"
    /\ UNCHANGED <<callback, display, return_least_infeasible, default_termination,
                   res, log, filt>>
    /\ rng' = random_seed(rng, Val(seed'))

-----------------------------------------------------------------------------
(* Algorithm.solve, _solve, next and the hooks *)

\* truth value of a field that is None or a boolean
Truthy(o) == o # None /\ Val(o)

\* solve() without the termination test of lines 248-249
solve_NoTerminationTest ==
    /\ pc = "initialized"
    /\ pc' = "_initialize"
    /\ n_gen' = Some(1)
    /\ UNCHANGED <<callback, display, return_least_infeasible, problem, termination,
                   default_termination, seed, save_history, history, pop, opt,
                   verbose, res, log, args, rng, filt>>

\* solve() up to the first hook of _solve(): the termination test and n_gen = 1
solve ==
    /\ pc = "initialized"
    /\ IF termination = "None"
       THEN /\ pc' = "raised"
            /\ log' = Append(log, "raise")
            /\ UNCHANGED n_gen
       ELSE /\ pc' = "_initialize"
            /\ n_gen' = Some(1)
            /\ UNCHANGED log
    /\ UNCHANGED <<callback, display, return_least_infeasible, problem, termination,
                   default_termination, seed, save_history, history, pop, opt,
                   verbose, res, args, rng, filt>>

\* what a hook does: it fails (None), or it sets pop to the evaluated
\* individuals of the decision values xs (Some(xs))
Outcomes(D) == {None} \cup {Some(xs) : xs \in D}

\* the decision values a deterministic hook draws from the global random
\* source in state r, and the state of the source after the hook
Draw(r) == [i \in 1..MaxRunPop |-> 1 + ((r + i) % MaxX)]
advance(r) == r + 1

\* copy.copy(self) in place of copy.deepcopy(self): the copy holds the pop
\* object of self
deepcopy_Shallow(h, cb) ==
    [n_gen |-> n_gen, pop |-> pop, opt |-> opt, callback |-> cb, history |-> h,
     termination |-> termination, seed |-> seed, save_history |-> save_history,
     aliased |-> TRUE]

\* copy.deepcopy(self) taken while the fields history and callback hold h and
\* cb; the copy shares no object with self (aliased is false)
deepcopy(h, cb) ==
    [n_gen |-> n_gen, pop |-> pop, opt |-> opt, callback |-> cb, history |-> h,
     termination |-> termination, seed |-> seed, save_history |-> save_history,
     aliased |-> FALSE]

\* the field history after the live pop object has changed in place to p:
\* the entries that hold that same object change with it
InPlace(hist, p) ==
    IF hist = None THEN None
    ELSE Some([i \in 1..Len(Val(hist)) |->
                  IF Val(hist)[i].aliased THEN [Val(hist)[i] EXCEPT !.pop = p]
                  ELSE Val(hist)[i]])

\* the abstract hook _initialize(): draws from the global random source and
\* sets pop, or fails
_initialize(out) ==
    /\ pc = "_initialize"
    /\ rng' = advance(rng)
    /\ IF out # None
       THEN /\ pop' = evaluate(Val(problem), Val(out))
            /\ history' = InPlace(history, pop')
            /\ pc' = "_set_optimum"
            /\ log' = Append(log, "_initialize")
       ELSE /\ pc' = "raised"
            /\ log' = log \o <<"_initialize", "raise">>
            /\ UNCHANGED <<pop, history>>
    /\ UNCHANGED <<callback, display, return_least_infeasible, problem, termination,
                   default_termination, seed, n_gen, save_history, opt,
                   verbose, res, args, filt>>

\* _set_optimum() that keeps an optimum once it is set
_set_optimum_Stale ==
    /\ pc = "_set_optimum"
    /\ IF len(pop) = 0
       THEN /\ pc' = "raised"
            /\ log' = log \o <<"_set_optimum", "raise">>
            /\ UNCHANGED opt
       ELSE /\ opt' = IF opt = NoneObj THEN filter_optimum(pop, TRUE) ELSE opt
            /\ pc' = "_each_iteration"
            /\ log' = Append(log, "_set_optimum")
    /\ UNCHANGED <<callback, display, return_least_infeasible, problem, termination,
                   default_termination, seed, n_gen, save_history, history, pop,
                   verbose, res, args, rng, filt>>

\* _set_optimum() that calls filter_optimum with least_infeasible=False
_set_optimum_NoLeastInfeasible ==
    /\ pc = "_set_optimum"
    /\ IF len(pop) = 0
       THEN /\ pc' = "raised"
            /\ log' = log \o <<"_set_optimum", "raise">>
            /\ UNCHANGED opt
       ELSE /\ opt' = filter_optimum(pop, FALSE)
            /\ pc' = "_each_iteration"
            /\ log' = Append(log, "_set_optimum")
    /\ UNCHANGED <<callback, display, return_least_infeasible, problem, termination,
                   default_termination, seed, n_gen, save_history, history, pop,
                   verbose, res, args, rng, filt>>

\* _set_optimum(); filter_optimum fails on a population without individuals
_set_optimum ==
    /\ pc = "_set_optimum"
    /\ IF len(pop) = 0
       THEN /\ pc' = "raised"
            /\ log' = log \o <<"_set_optimum", "raise">>
            /\ UNCHANGED opt
       ELSE /\ opt' = filter_optimum(pop, TRUE)
            /\ pc' = "_each_iteration"
            /\ log' = Append(log, "_set_optimum")
    /\ UNCHANGED <<callback, display, return_least_infeasible, problem, termination,
                   default_termination, seed, n_gen, save_history, history, pop,
                   verbose, res, args, rng, filt>>

\* a snapshot taken without detaching history and callback (no line 280)
snapshot_NoDetach(hist) == Append(hist, deepcopy(Some(hist), callback))

\* a snapshot put in front of the history (insert instead of append)
snapshot_Prepend(hist) == <<deepcopy(None, "None")>> \o hist

\* lines 278-286: the history after the snapshot of this generation
snapshot(hist) == Append(hist, deepcopy(None, "None"))

\* _each_iteration(), lines 268-269: the display, if verbose
_each_iteration_display ==
    /\ pc = "_each_iteration"
    /\ log' = IF Truthy(verbose) /\ display # "None" THEN Append(log, "display")
              ELSE log
    /\ pc' = "callback"
    /\ UNCHANGED <<algo, res, args, rng, filt>>

\* lines 273-276 that call only a Callback object
invoke_OnlyObjects(cb) == IF cb = "Callback" THEN <<"callback.notify">> ELSE <<>>

\* lines 273-276: the call made to the callback cb
invoke(cb) == IF cb = "Callback" THEN <<"callback.notify">> ELSE <<"callback">>

\* _each_iteration(), lines 272-276: the callback is called with the
\* algorithm; it returns, having left pop alone (None) or having changed pop
\* in place to the individuals of the decision values xs (Some(xs))
_each_iteration_callback(mut) ==
    /\ pc = "callback"
    /\ IF callback # "None"
       THEN /\ log' = log \o invoke(callback)
            /\ IF mut # None
               THEN /\ pop' = evaluate(Val(problem), Val(mut))
                    /\ history' = InPlace(history, pop')
               ELSE UNCHANGED <<pop, history>>
       ELSE UNCHANGED <<log, pop, history>>
    /\ pc' = "save_history"
    /\ UNCHANGED <<callback, display, return_least_infeasible, problem, termination,
                   default_termination, seed, n_gen, save_history, opt,
                   verbose, res, args, rng, filt>>

\* _each_iteration(), lines 278-286: history and callback are detached, the
\* algorithm is copied, they are attached again and the copy is appended;
\* when copy.deepcopy fails (ok is false) the exception leaves
\* _each_iteration() after line 280
_each_iteration_history(ok) ==
    /\ pc = "save_history"
    /\ IF Truthy(save_history)
       THEN IF ok
            THEN /\ history' = Some(snapshot(Val(history)))
                 /\ log' = log \o <<"snapshot", "_each_iteration">>
                 /\ pc' = "do_continue"
                 /\ UNCHANGED callback
            ELSE /\ history' = None
                 /\ callback' = "None"
                 /\ log' = log \o <<"deepcopy", "raise">>
                 /\ pc' = "raised"
       ELSE /\ log' = Append(log, "_each_iteration")
            /\ pc' = "do_continue"
            /\ UNCHANGED <<history, callback>>
    /\ UNCHANGED <<display, return_least_infeasible, problem, termination,
                   default_termination, seed, n_gen, save_history, pop, opt,
                   verbose, res, args, rng, filt>>

\* the loop of _solve() that goes on when do_continue() answers false
do_continue_Inverted ==
    /\ pc = "do_continue"
    /\ \E c \in BOOLEAN :
          /\ ~c => Val(n_gen) < MaxGen
          /\ pc' = IF c THEN "finalize" ELSE "next"
          /\ log' = log \o <<"do_continue", IF c THEN "continue" ELSE "stop">>
    /\ UNCHANGED <<algo, res, args, rng, filt>>

\* self.termination.do_continue(self): the loop test of _solve(); the answer
\* c of the termination is logged as "continue" or "stop"
do_continue ==
    /\ pc = "do_continue"
    /\ \E c \in BOOLEAN :
          /\ c => Val(n_gen) < MaxGen
          /\ pc' = IF c THEN "next" ELSE "finalize"
          /\ log' = log \o <<"do_continue", IF c THEN "continue" ELSE "stop">>
    /\ UNCHANGED <<algo, res, args, rng, filt>>

\* next() without line 227
next_NoIncrement(out) ==
    /\ pc = "next"
    /\ rng' = advance(rng)
    /\ IF out # None
       THEN /\ pop' = evaluate(Val(problem), Val(out))
            /\ history' = InPlace(history, pop')
            /\ pc' = "_set_optimum"
            /\ log' = log \o <<"next", "_next">>
       ELSE /\ pc' = "raised"
            /\ log' = log \o <<"next", "_next", "raise">>
            /\ UNCHANGED <<pop, history>>
    /\ UNCHANGED <<callback, display, return_least_infeasible, problem, termination,
                   default_termination, seed, n_gen, save_history, opt,
                   verbose, res, args, filt>>

\* next() that goes on after a failure of the hook _next()
next_Swallow(out) ==
    /\ pc = "next"
    /\ rng' = advance(rng)
    /\ n_gen' = Some(Val(n_gen) + 1)
    /\ IF out # None
       THEN /\ pop' = evaluate(Val(problem), Val(out))
            /\ history' = InPlace(history, pop')
            /\ pc' = "_set_optimum"
            /\ log' = log \o <<"next", "_next">>
       ELSE /\ pc' = "_set_optimum"
            /\ log' = log \o <<"next", "_next", "raise">>
            /\ UNCHANGED <<pop, history>>
    /\ UNCHANGED <<callback, display, return_least_infeasible, problem, termination,
                   default_termination, seed, save_history, opt,
                   verbose, res, args, filt>>

\* next() up to the end of the hook _next(): n_gen += 1, then _next() draws
\* from the global random source and sets pop, or fails
next(out) ==
    /\ pc = "next"
    /\ rng' = advance(rng)
    /\ n_gen' = Some(Val(n_gen) + 1)
    /\ IF out # None
       THEN /\ pop' = evaluate(Val(problem), Val(out))
            /\ history' = InPlace(history, pop')
            /\ pc' = "_set_optimum"
            /\ log' = log \o <<"next", "_next">>
       ELSE /\ pc' = "raised"
            /\ log' = log \o <<"next", "_next", "raise">>
            /\ UNCHANGED <<pop, history>>
    /\ UNCHANGED <<callback, display, return_least_infeasible, problem, termination,
                   default_termination, seed, save_history, opt,
                   verbose, res, args, filt>>

\* finalize(): the hook _finalize() does nothing
finalize ==
    /\ pc = "finalize"
    /\ pc' = "result"
    /\ log' = Append(log, "finalize")
    /\ UNCHANGED <<algo, res, args, rng, filt>>

\* a two-dimensional array with one row per individual, and its first row
Array(rows) == [ndim |-> 2, rows |-> rows]
Row0(a) == [ndim |-> 1, rows |-> <<a.rows[1]>>]

\* the Result without the return_least_infeasible policy of lines 196-199
Result_NoLeastInfeasible ==
    LET opt1 == IF len(opt) = 0 THEN NoneObj
                ELSE IF ~any([i \in 1..len(opt) |-> feasible(opt.inds[i])])
                     THEN NoneObj
                     ELSE opt
        X == Array(get(opt.inds, "X"))
        squeeze == Val(problem).n_obj = 1 /\ Len(X.rows) = 1
        field(key) == IF opt1 = NoneObj THEN NoArray
                      ELSE IF squeeze THEN Row0(Array(get(opt.inds, key)))
                           ELSE Array(get(opt.inds, key))
    IN  [pop |-> pop, opt |-> opt1,
         X |-> field("X"), F |-> field("F"), CV |-> field("CV"), G |-> field("G"),
         problem |-> problem, history |-> history]

\* the Result squeezed whenever one solution was found (line 213 without n_obj)
Result_SqueezeSingle ==
    LET opt1 == IF len(opt) = 0 THEN NoneObj
                ELSE IF ~any([i \in 1..len(opt) |-> feasible(opt.inds[i])])
                     THEN (IF return_least_infeasible
                           THEN filter_optimum(opt, TRUE)
                           ELSE NoneObj)
                     ELSE opt
        X == Array(get(opt.inds, "X"))
        squeeze == Len(X.rows) = 1
        field(key) == IF opt1 = NoneObj THEN NoArray
                      ELSE IF squeeze THEN Row0(Array(get(opt.inds, key)))
                           ELSE Array(get(opt.inds, key))
    IN  [pop |-> pop, opt |-> opt1,
         X |-> field("X"), F |-> field("F"), CV |-> field("CV"), G |-> field("G"),
         problem |-> problem, history |-> history]

\* the Result whose X, F, CV, G are read from pop instead of opt
Result_FieldsFromPop ==
    LET opt1 == IF len(opt) = 0 THEN NoneObj
                ELSE IF ~any([i \in 1..len(opt) |-> feasible(opt.inds[i])])
                     THEN (IF return_least_infeasible
                           THEN filter_optimum(opt, TRUE)
                           ELSE NoneObj)
                     ELSE opt
        X == Array(get(pop.inds, "X"))
        squeeze == Val(problem).n_obj = 1 /\ Len(X.rows) = 1
        field(key) == IF opt1 = NoneObj THEN NoArray
                      ELSE IF squeeze THEN Row0(Array(get(pop.inds, key)))
                           ELSE Array(get(pop.inds, key))
    IN  [pop |-> pop, opt |-> opt1,
         X |-> field("X"), F |-> field("F"), CV |-> field("CV"), G |-> field("G"),
         problem |-> problem, history |-> history]

\* lines 185-221: the Result built from the final state
Result ==
    LET opt1 == IF len(opt) = 0 THEN NoneObj
                ELSE IF ~any([i \in 1..len(opt) |-> feasible(opt.inds[i])])
                     THEN (IF return_least_infeasible
                           THEN filter_optimum(opt, TRUE)
                           ELSE NoneObj)
                     ELSE opt
        X == Array(get(opt.inds, "X"))
        squeeze == Val(problem).n_obj = 1 /\ Len(X.rows) = 1
        field(key) == IF opt1 = NoneObj THEN NoArray
                      ELSE IF squeeze THEN Row0(Array(get(opt.inds, key)))
                           ELSE Array(get(opt.inds, key))
    IN  [pop |-> pop, opt |-> opt1,
         X |-> field("X"), F |-> field("F"), CV |-> field("CV"), G |-> field("G"),
         problem |-> problem, history |-> history]

\* the rest of solve(): the Result is assembled and returned
return ==
    /\ pc = "result"
    /\ res' = Some(Result)
    /\ pc' = "returned"
    /\ log' = Append(log, "return")
    /\ UNCHANGED <<algo, args, rng, filt>>

\* the caller of solve() changes the live pop in place, to the individuals of
\* the decision values xs, after solve() has returned; the Result holds the
\* same pop and history objects as the algorithm
caller_changes_pop(xs) ==
    /\ pc = "returned"
    /\ pop' = evaluate(Val(problem), xs)
    /\ history' = InPlace(history, pop')
    /\ res' = Some([Val(res) EXCEPT !.pop = pop', !.history = history'])
    /\ pc' = "changed"
    /\ UNCHANGED <<callback, display, return_least_infeasible, problem, termination,
                   default_termination, seed, n_gen, save_history, opt,
                   verbose, log, args, rng, filt>>

-----------------------------------------------------------------------------
(* A direct call of filter_optimum *)

\* the populations of section 8 of the specification
ExamplePopulations ==
    {Population(<<Individual(1, <<1, 4>>, 0), Individual(2, <<2, 3>>, 0),
                  Individual(3, <<3, 2>>, 0), Individual(4, <<4, 1>>, 0)>>),
     Population(<<Individual(1, <<1, 4>>, 0), Individual(2, <<2, 3>>, 0),
                  Individual(3, <<1, 1>>, 0), Individual(4, <<4, 1>>, 0)>>),
     Population(<<Individual(1, <<1, 1>>, 5), Individual(2, <<1, 1>>, 1),
                  Individual(3, <<1, 1>>, 9)>>)}

call_filter_optimum(least_infeasible) ==
    /\ fret = NotCalled
    /\ fli' = least_infeasible
    /\ fret' = filter_optimum(fpop, least_infeasible)
    /\ UNCHANGED <<pc, algo, res, log, args, rng, fpop>>

-----------------------------------------------------------------------------
(* Specifications: the same program over different sets of inputs *)

SeedArgs == {None} \cup {Some(s) : s \in 0..(MaxSeed - 1)}

NoFilterCall == fpop = NoneObj /\ fli = FALSE /\ fret = NotCalled

\* Spec: the run and its history, over every callback, display, verbose and
\* save_history; the hooks produce populations of at most one individual
Init ==
    /\ \E cb \in Callbacks, disp \in Displays : __init__(cb, disp, "T1", FALSE, "None")
    /\ NoFilterCall

Next ==
    \/ \E prob \in Problems, vb \in BOOLEAN, sh \in BOOLEAN :
          initialize(prob, "None", Some(0), vb, sh)
    \/ solve
    \/ \E out \in Outcomes(SingleDesigns) : _initialize(out)
    \/ _set_optimum
    \/ _each_iteration_display
    \/ _each_iteration_callback(None)
    \/ \E ok \in BOOLEAN : _each_iteration_history(ok)
    \/ do_continue
    \/ \E out \in Outcomes(SingleDesigns) : next(out)
    \/ finalize
    \/ return

Spec == Init /\ [][Next]_vars

\* SpecConfig: every configuration of termination and seed, one problem, the
\* hooks produce one population
InitConfig ==
    /\ \E cb \in {"None", "function"}, disp \in Displays, term \in Terminations,
          rli \in BOOLEAN, dterm \in DefaultTerminations :
          __init__(cb, disp, term, rli, dterm)
    /\ NoFilterCall

OneProblem == [n_obj |-> 1, kind |-> "aligned", c |-> 1]

NextConfig ==
    \/ \E term \in Terminations, sd \in SeedArgs, vb \in BOOLEAN, sh \in BOOLEAN :
          initialize(OneProblem, term, sd, vb, sh)
    \/ solve
    \/ \E out \in Outcomes({<<1>>}) : _initialize(out)
    \/ _set_optimum
    \/ _each_iteration_display
    \/ _each_iteration_callback(None)
    \/ \E ok \in BOOLEAN : _each_iteration_history(ok)
    \/ do_continue
    \/ \E out \in Outcomes({<<1>>}) : next(out)
    \/ finalize
    \/ return

SpecConfig == InitConfig /\ [][NextConfig]_vars

\* SpecResult: every problem, every population and both values of
\* return_least_infeasible, without callback, display and history
InitResult ==
    /\ \E rli \in BOOLEAN : __init__("None", "None", "T1", rli, "None")
    /\ NoFilterCall

NextResult ==
    \/ \E prob \in Problems : initialize(prob, "None", Some(0), FALSE, FALSE)
    \/ solve
    \/ \E out \in Outcomes(Designs) : _initialize(out)
    \/ _set_optimum
    \/ _each_iteration_display
    \/ _each_iteration_callback(None)
    \/ \E ok \in BOOLEAN : _each_iteration_history(ok)
    \/ do_continue
    \/ \E out \in Outcomes(Designs) : next(out)
    \/ finalize
    \/ return

SpecResult == InitResult /\ [][NextResult]_vars

\* SpecFilter: filter_optimum called on every small population
InitFilter ==
    /\ __init__("None", "None", "None", FALSE, "None")
    /\ \/ fpop \in ExamplePopulations
       \/ \E n \in ObjectiveCounts, m \in 1..MaxPop :
             \E e \in [1..m -> Evaluations(n)] : fpop = Population(Evaluated(e))
    /\ fli = FALSE
    /\ fret = NotCalled

NextFilter == \E least_infeasible \in BOOLEAN : call_filter_optimum(least_infeasible)

SpecFilter == InitFilter /\ [][NextFilter]_vars

\* SpecSeed: runs with an explicit seed whose hooks are deterministic and draw
\* from the global random source only, started in any state of that source
InitSeed ==
    /\ \E rli \in BOOLEAN : __init__("None", "None", "T1", rli, "None")
    /\ NoFilterCall

NextSeed ==
    \/ \E prob \in Problems, s \in 0..(MaxSeed - 1) :
          initialize(prob, "None", Some(s), FALSE, TRUE)
    \/ solve
    \/ _initialize(Some(Draw(rng)))
    \/ _set_optimum
    \/ _each_iteration_display
    \/ _each_iteration_callback(None)
    \/ _each_iteration_history(TRUE)
    \/ do_continue
    \/ next(Some(Draw(rng)))
    \/ finalize
    \/ return

SpecSeed == InitSeed /\ [][NextSeed]_vars

\* the non-empty populations of at most one individual
Changes == SeqsUpTo(1..MaxX, 1)

\* SpecIsolation: runs with history in which the callback and, after solve(),
\* the caller change the live pop in place
InitIsolation ==
    /\ __init__("function", "None", "T1", FALSE, "None")
    /\ NoFilterCall

NextIsolation ==
    \/ \E prob \in Problems : initialize(prob, "None", Some(0), FALSE, TRUE)
    \/ solve
    \/ \E out \in Outcomes(SingleDesigns) : _initialize(out)
    \/ _set_optimum
    \/ _each_iteration_display
    \/ \E mut \in Outcomes(Changes) : _each_iteration_callback(mut)
    \/ \E ok \in BOOLEAN : _each_iteration_history(ok)
    \/ do_continue
    \/ \E out \in Outcomes(SingleDesigns) : next(out)
    \/ finalize
    \/ return
    \/ \E xs \in Changes : caller_changes_pop(xs)

SpecIsolation == InitIsolation /\ [][NextIsolation]_vars

\* SpecLive: Spec in which solve(), once called, keeps running: every call it
\* makes returns or fails
SpecLive == Init /\ [][Next]_vars /\ WF_vars(Next)

TypeOK == pc \in {"constructed", "initialized", "_initialize", "_set_optimum",
                  "_each_iteration", "callback", "save_history", "do_continue",
                  "next", "finalize", "result", "returned", "raised", "changed"}

-----------------------------------------------------------------------------
(* Helpers of the properties *)

\* how often the event e occurs in the log
Count(s, e) == Cardinality({i \in DOMAIN s : s[i] = e})

\* positions of a run that has got past the termination test of _solve()
Running == pc \in {"_initialize", "_set_optimum", "_each_iteration", "callback",
                   "save_history", "do_continue", "next", "finalize", "result"}

\* number of objectives of a non-empty population
nobj(p) == Len(p.inds[1].F)

\* indices of the feasible individuals of p
Feasible(p) == {i \in 1..len(p) : feasible(p.inds[i])}

-----------------------------------------------------------------------------
(* C1 *)

\* C1: initialize resolves termination as: the explicit argument if one is
\* given, else the previously configured value, else default_termination; so
\* every initialize step with a non-null argument leaves that argument in
\* self.termination, also when a termination was configured before.
C1_ExplicitArgumentFirst ==
    [][pc' = "initialized" =>
        termination' = IF Val(args').termination # "None" THEN Val(args').termination
                       ELSE IF termination # "None" THEN termination
                       ELSE default_termination]_vars

-----------------------------------------------------------------------------
(* C2 *)

\* C2: when no termination is resolved, solve fails before any hook runs:
\* nothing but the raise is in the log, no Result exists, and n_gen, pop, opt
\* and history are as initialize left them.
C2_NoTerminationFailsFirst ==
    (termination = "None" /\ pc \notin {"constructed", "initialized"}) =>
        /\ pc = "raised"
        /\ log = <<"raise">>
        /\ res = None
        /\ n_gen = None
        /\ pop = NoneObj
        /\ opt = NoneObj
        /\ history = Some(<<>>)

C2_Witness ==
    /\ pc = "raised"
    /\ termination = "None"
    /\ default_termination = "None"
    /\ Val(args).termination = "None"
    /\ callback # "None"
    /\ Truthy(save_history)

-----------------------------------------------------------------------------
(* C3 - C5: filter_optimum *)

\* the set of the individuals of a sequence
Elems(q) == {q[i] : i \in 1..Len(q)}

\* indices of the feasible individuals of p that no feasible individual of p
\* dominates
NonDominatedFeasible(p) ==
    {i \in Feasible(p) :
        ~\E j \in Feasible(p) : Dominates(p.inds[j].F, p.inds[i].F)}

Called == fret # NotCalled

\* C3: for a population with more than one objective and a feasible
\* individual, filter_optimum returns (for either least_infeasible) exactly the
\* feasible individuals that no other feasible individual dominates, each once;
\* the two example matrices of the specification give all four individuals and
\* only [1, 1].
C3_NonDominatedFeasible ==
    (Called /\ nobj(fpop) > 1 /\ Feasible(fpop) # {}) =>
        /\ fret.kind = "Population"
        /\ Elems(fret.inds) = {fpop.inds[i] : i \in NonDominatedFeasible(fpop)}
        /\ len(fret) = Cardinality(NonDominatedFeasible(fpop))
        /\ \A k \in 1..len(fret) : feasible(fret.inds[k])
        /\ (get(fpop.inds, "F") = <<<<1, 4>>, <<2, 3>>, <<3, 2>>, <<4, 1>>>>
                => fret = fpop)
        /\ (get(fpop.inds, "F") = <<<<1, 4>>, <<2, 3>>, <<1, 1>>, <<4, 1>>>>
                => fret = Population(<<fpop.inds[3]>>))

\* the second example: three feasible individuals are dominated by the third
C3_Witness ==
    /\ Called
    /\ get(fpop.inds, "F") = <<<<1, 4>>, <<2, 3>>, <<1, 1>>, <<4, 1>>>>
    /\ Feasible(fpop) = 1..4
    /\ NonDominatedFeasible(fpop) = {3}
    /\ fret = Population(<<fpop.inds[3]>>)

\* index of the first feasible individual of minimum objective value
FirstMinFeasible(p) ==
    CHOOSE i \in Feasible(p) :
        /\ \A j \in Feasible(p) : p.inds[i].F[1] <= p.inds[j].F[1]
        /\ \A j \in Feasible(p) : j < i => p.inds[j].F[1] > p.inds[i].F[1]

\* C4: for a population with one objective and a feasible individual,
\* filter_optimum returns a Population of one element, the feasible individual
\* of minimum objective value that comes first in the population.
C4_SingleObjectiveMinimum ==
    (Called /\ nobj(fpop) = 1 /\ Feasible(fpop) # {}) =>
        /\ fret.kind = "Population"
        /\ fret.inds = <<fpop.inds[FirstMinFeasible(fpop)]>>

\* two feasible individuals that tie at the minimum and differ in X
C4_Witness ==
    /\ Called
    /\ nobj(fpop) = 1
    /\ len(fpop) = 2
    /\ Feasible(fpop) = {1, 2}
    /\ fpop.inds[1].F = fpop.inds[2].F
    /\ fpop.inds[1].X # fpop.inds[2].X
    /\ fret = Population(<<fpop.inds[1]>>)

\* index of the first individual of minimum CV
FirstMinCV(p) ==
    CHOOSE i \in 1..len(p) :
        /\ \A j \in 1..len(p) : p.inds[i].CV[1] <= p.inds[j].CV[1]
        /\ \A j \in 1..(i - 1) : p.inds[j].CV[1] > p.inds[i].CV[1]

\* C5: for a non-empty population without feasible individual,
\* filter_optimum(P, least_infeasible=True) returns a Population of one
\* element, the first individual of minimum CV (CV = [5, 1, 9] gives the second
\* individual), and filter_optimum(P, least_infeasible=False) returns None.
C5_NoFeasible ==
    (Called /\ Feasible(fpop) = {}) =>
        /\ fli => /\ fret.kind = "Population"
                  /\ fret.inds = <<fpop.inds[FirstMinCV(fpop)]>>
        /\ fli /\ get(fpop.inds, "CV") = <<<<5>>, <<1>>, <<9>>>>
               => fret.inds = <<fpop.inds[2]>>
        /\ ~fli => fret = NoneObj

C5_Witness ==
    /\ Called
    /\ fli
    /\ get(fpop.inds, "CV") = <<<<5>>, <<1>>, <<9>>>>
    /\ fret = Population(<<fpop.inds[2]>>)

-----------------------------------------------------------------------------
(* C6, C7: the Result *)

Returned == pc = "returned"

\* the four value fields of a Result
Fields(r) == {r.X, r.F, r.CV, r.G}

\* C6: when solve completes and the final population has no feasible
\* individual, the Result follows return_least_infeasible: if false, opt and
\* X, F, CV, G are None; if true, opt is the Population of the first individual
\* of minimum CV and X, F, CV, G are its values; pop is the final population.
C6_NoFeasibleResult ==
    (Returned /\ Feasible(pop) = {}) =>
        LET r == Val(res)
            least == pop.inds[FirstMinCV(pop)]
        IN  /\ r.pop = pop
            /\ ~return_least_infeasible =>
                  /\ r.opt = NoneObj
                  /\ Fields(r) = {NoArray}
            /\ return_least_infeasible =>
                  /\ r.opt = Population(<<least>>)
                  /\ r.X.rows = <<least.X>>
                  /\ r.F.rows = <<least.F>>
                  /\ r.CV.rows = <<least.CV>>
                  /\ r.G.rows = <<least.G>>

\* the least infeasible individual is reported and is not the first of pop
C6_Witness ==
    /\ Returned
    /\ Feasible(pop) = {}
    /\ return_least_infeasible
    /\ len(pop) = 2
    /\ FirstMinCV(pop) = 2
    /\ Val(res).opt = Population(<<pop.inds[2]>>)
    /\ Val(res).CV.rows = <<pop.inds[2].CV>>

\* C7: in a Result with an optimum, X, F, CV and G are a bare row exactly when
\* the problem has one objective and opt has one individual; otherwise they
\* have one row for each individual of opt.
C7_Squeeze ==
    (Returned /\ Val(res).opt # NoneObj) =>
        LET r == Val(res)
        IN  \A a \in Fields(r) :
                /\ a.ndim \in {1, 2}
                /\ a.ndim = 1 <=> (Val(problem).n_obj = 1 /\ len(r.opt) = 1)
                /\ a.ndim = 2 => Len(a.rows) = len(r.opt)

\* one optimal individual of a problem with two objectives is not squeezed
C7_Witness ==
    /\ Returned
    /\ Val(problem).n_obj = 2
    /\ len(Val(res).opt) = 1
    /\ Val(res).F = Array(<<Val(res).opt.inds[1].F>>)

-----------------------------------------------------------------------------
(* C8 - C10: generation counter and history *)

\* positions after the bookkeeping of the current generation
AfterBookkeeping == pc \in {"do_continue", "next", "finalize", "result", "returned"}

\* C8: n_gen is 1 before the first call of _initialize, is incremented by
\* exactly 1 at the start of each next() and changes nowhere else in a run, so
\* that it always equals 1 plus the number of next() calls, and equals 1 at the
\* end of a run whose termination stopped at its first consultation.
C8_GenerationCount ==
    /\ [](/\ (pc = "_initialize" => n_gen = Some(1) /\ Count(log, "_initialize") = 0)
          /\ (Running \/ Returned => n_gen = Some(1 + Count(log, "next")))
          /\ (Returned /\ Count(log, "do_continue") = 1 => n_gen = Some(1)))
    /\ [][/\ (pc = "next" /\ pc' # "next") => n_gen' = Some(Val(n_gen) + 1)
          /\ n_gen' # n_gen =>
                \/ pc = "initialized" /\ pc' = "_initialize" /\ n_gen' = Some(1)
                \/ pc = "next"
                \/ pc' = "initialized" /\ n_gen' = None]_vars

C8_Witness ==
    /\ Returned
    /\ n_gen = Some(2)
    /\ Count(log, "next") = 1
    /\ Count(log, "do_continue") = 2

\* the snapshots reachable from a history, nested ones included
RECURSIVE Reachable(_)
Reachable(h) ==
    IF h = <<>> THEN 0
    ELSE 1 + (IF Head(h).history = None THEN 0 ELSE Reachable(Val(Head(h).history)))
           + Reachable(Tail(h))

\* C9: every entry of history is a copy whose callback and history fields are
\* None, so no entry contains an earlier snapshot, and with save_history the
\* number of snapshots reachable from history after k generations is k.
C9_SnapshotsDetached ==
    history # None =>
        LET h == Val(history)
        IN  /\ \A i \in 1..Len(h) : h[i].callback = "None" /\ h[i].history = None
            /\ Reachable(h) = Len(h)
            /\ (Truthy(save_history) /\ AfterBookkeeping) => Reachable(h) = Val(n_gen)

C9_Witness ==
    /\ pc = "do_continue"
    /\ Truthy(save_history)
    /\ callback = "Callback"
    /\ n_gen = Some(2)
    /\ Reachable(Val(history)) = 2

\* h1 is h0 with one entry appended
Appended(h0, h1) == Len(h1) = Len(h0) + 1 /\ SubSeq(h1, 1, Len(h0)) = h0

\* C10: with save_history, each generation appends exactly one snapshot and
\* nothing is removed or reordered: the i-th entry records n_gen = i and after
\* the bookkeeping of generation g the history has g entries; without
\* save_history the history and Result.history stay empty.
C10_HistoryOrder ==
    /\ [](history # None =>
            LET h == Val(history)
            IN  /\ Truthy(save_history) =>
                      /\ \A i \in 1..Len(h) : h[i].n_gen = Some(i)
                      /\ AfterBookkeeping => Len(h) = Val(n_gen)
                /\ ~Truthy(save_history) => h = <<>>
                /\ Returned => Val(res).history = history)
    /\ [][pc \notin {"constructed", "initialized"} =>
            IF pc = "save_history" /\ Truthy(save_history)
            THEN pc' # "raised" => Appended(Val(history), Val(history'))
            ELSE history' = history]_vars

C10_Witness ==
    /\ Returned
    /\ Truthy(save_history)
    /\ Len(Val(Val(res).history)) = 2
    /\ Val(Val(res).history)[1].pop # Val(Val(res).history)[2].pop
    /\ Val(Val(res).history)[2].n_gen = Some(2)

-----------------------------------------------------------------------------
(* C11: isolation of the snapshots *)

\* what an entry of the history records of its generation
Recorded(e) == <<e.pop, e.opt, e.n_gen>>

\* every entry of h0 is in h1 at its place, with the same pop, opt and n_gen
Kept(h0, h1) ==
    /\ Len(h1) >= Len(h0)
    /\ \A i \in 1..Len(h0) : Recorded(h1[i]) = Recorded(h0[i])

\* C11: a history entry is a frozen copy: once appended, no step (a hook of a
\* later generation, the callback, or the caller after solve changing the live
\* pop in place) changes the pop, opt and n_gen it records, in the history of
\* the algorithm and in the history of the Result.
C11_SnapshotsFrozen ==
    [][/\ (history # None /\ history' # None) => Kept(Val(history), Val(history'))
       /\ (res # None /\ res' # None) =>
             Kept(Val(Val(res).history), Val(Val(res').history))]_vars

\* the live pop was changed after two snapshots, which still differ from it
C11_Witness ==
    /\ pc = "changed"
    /\ Len(Val(history)) = 2
    /\ Val(history)[1].pop # Val(history)[2].pop
    /\ Val(history)[2].pop # pop
    /\ Val(Val(res).history) = Val(history)

-----------------------------------------------------------------------------
(* C12: failure of a hook *)

\* the last call logged is a hook that failed
HookFailed ==
    /\ Len(log) >= 2
    /\ log[Len(log)] = "raise"
    /\ log[Len(log) - 1] \in {"_initialize", "_next"}

\* C12: a failure of _initialize or _next in generation g is the last thing
\* that happens in the run: no call follows it, the hook was called once per
\* generation (no retry), finalize was not called, no Result exists, and the
\* history holds the g-1 snapshots of the generations before (none without
\* save_history).
C12_HookFailurePropagates ==
    /\ [](/\ \A i \in 1..Len(log) : log[i] = "raise" => (i = Len(log) /\ pc = "raised")
          /\ HookFailed =>
                /\ res = None
                /\ Count(log, "_initialize") + Count(log, "_next") = Val(n_gen)
                /\ Count(log, "finalize") = 0
                /\ history # None
                /\ Len(Val(history)) = (IF Truthy(save_history) THEN Val(n_gen) - 1 ELSE 0)
                /\ \A i \in 1..Len(Val(history)) : Val(history)[i].n_gen = Some(i))
    /\ [][pc # "raised"]_vars

\* _next fails in the second generation of a run with history
C12_Witness ==
    /\ HookFailed
    /\ log[Len(log) - 1] = "_next"
    /\ n_gen = Some(2)
    /\ Truthy(save_history)
    /\ Len(Val(history)) = 1
    /\ callback # "None"

-----------------------------------------------------------------------------
(* C13: determinism *)

\* the pop of generation g of a run seeded with s on the problem prob
SeededPop(prob, s, g) == evaluate(prob, Draw(s + g - 1))

\* positions at which the hook of the current generation has set pop
PopSet == pc \in {"_set_optimum", "_each_iteration", "callback", "save_history",
                  "do_continue", "next", "finalize", "result", "returned"}

\* C13: a run with an explicit seed and deterministic hooks that draw from the
\* seeded global source is a function of the seed and the configuration,
\* whatever the state of the source before initialize: the seed is the
\* argument, pop, opt and n_gen of every generation (live and in the history)
\* are those the seed gives, and X, F, CV, G of the Result are computed from
\* them; so two such runs go through the same states and give the same Result.
C13_Determinism ==
    (pc # "constructed" /\ pc # "raised") =>
        /\ seed = Val(args).seed
        /\ PopSet => pop = SeededPop(Val(problem), Val(seed), Val(n_gen))
        /\ (PopSet /\ pc # "_set_optimum") => opt = filter_optimum(pop, TRUE)
        /\ \A i \in 1..Len(Val(history)) :
              /\ Val(history)[i].n_gen = Some(i)
              /\ Val(history)[i].pop = SeededPop(Val(problem), Val(seed), i)
              /\ Val(history)[i].opt = filter_optimum(Val(history)[i].pop, TRUE)
        /\ Returned =>
              /\ Len(Val(history)) = Val(n_gen)
              /\ Val(res) = Result

\* a run of two generations with seed 1 whose generations differ
C13_Witness ==
    /\ Returned
    /\ seed = Some(1)
    /\ n_gen = Some(2)
    /\ Val(history)[1].pop # Val(history)[2].pop
    /\ Val(res).X.rows = get(opt.inds, "X")

-----------------------------------------------------------------------------
(* C14: the seed of the run *)

\* C14: when initialize is called with seed None, the seed that was drawn is
\* stored in the Result that solve returns.
C14_SeedInResult ==
    (Returned /\ Val(args).seed = None) =>
        /\ seed # None
        /\ "seed" \in DOMAIN Val(res)
        /\ Val(res).seed = seed

-----------------------------------------------------------------------------
(* C15: order of the calls of a generation *)

\* the calls of the bookkeeping of one generation under the configuration of
\* the run: display, one call of the callback, snapshot
Bookkeeping ==
    (IF Truthy(verbose) /\ display # "None" THEN <<"display">> ELSE <<>>)
    \o (IF callback = "None" THEN <<>>
        ELSE IF callback = "Callback" THEN <<"callback.notify">> ELSE <<"callback">>)
    \o (IF Truthy(save_history) THEN <<"snapshot">> ELSE <<>>)
    \o <<"_each_iteration">>

\* the calls of g generations run one after the other
RECURSIVE Generations(_)
Generations(g) ==
    IF g = 1 THEN <<"_initialize", "_set_optimum">> \o Bookkeeping
    ELSE Generations(g - 1)
         \o <<"do_continue", "continue", "next", "_next", "_set_optimum">>
         \o Bookkeeping

\* calls of the callback logged so far
Notified == Count(log, "callback") + Count(log, "callback.notify")

\* C15: generations are sequential: when the termination is consulted in
\* generation g, the calls made so far are those of g generations, each one the
\* hook, the optimum, then display (if verbose and set), one call of the
\* callback (function or Callback object), snapshot (if save_history), with the
\* termination consulted between two generations; at the end of solve the
\* callback has been called n_gen times.
C15_GenerationsSequential ==
    /\ pc = "do_continue" => log = Generations(Val(n_gen))
    /\ Returned =>
          /\ log = Generations(Val(n_gen)) \o <<"do_continue", "stop", "finalize", "return">>
          /\ callback # "None" => Notified = Val(n_gen)

\* two generations with display, a plain function as callback and history
C15_Witness ==
    /\ Returned
    /\ n_gen = Some(2)
    /\ Truthy(verbose) /\ display # "None"
    /\ callback = "function"
    /\ Truthy(save_history)
    /\ Notified = 2
    /\ Count(log, "display") = 2

-----------------------------------------------------------------------------
(* C16: opt is the optimum of pop *)

\* positions at which the display, the callback, the snapshot, the termination
\* or the Result assembly reads the algorithm
Observed == pc \in {"_each_iteration", "callback", "save_history", "do_continue",
                    "result"}

-----------------------------------------------------------------------------
(* C17: the loop of solve and finalize *)

\* the log up to its i-th call
Upto(i) == SubSeq(log, 1, i)

\* C17: solve calls next() exactly when the termination answers continue and
\* finalize when it answers stop; the first generation is complete before the
\* termination is first consulted; finalize is called once, after the last
\* next() and before the Result, and only the return follows it; and a run
\* that has started ends, with a Result or with a failure.
C17_LoopAndFinalize ==
    /\ [](/\ \A i \in 1..Len(log) :
                /\ log[i] = "continue" => (IF i = Len(log) THEN pc = "next"
                                           ELSE log[i + 1] = "next")
                /\ log[i] = "stop" => (IF i = Len(log) THEN pc = "finalize"
                                       ELSE log[i + 1] = "finalize")
                /\ log[i] = "next" => log[i - 1] = "continue"
                /\ log[i] = "finalize" =>
                      /\ log[i - 1] = "stop"
                      /\ SubSeq(log, i + 1, Len(log)) \in {<<>>, <<"return">>}
                /\ log[i] = "do_continue" =>
                      Count(Upto(i), "_each_iteration") = Count(Upto(i), "do_continue")
          /\ Count(log, "do_continue") >= 1 =>
                SubSeq(log, 1, 2) = <<"_initialize", "_set_optimum">>
          /\ Returned => /\ Count(log, "finalize") = 1
                         /\ Count(log, "next") = Count(log, "continue")
                         /\ Count(log, "stop") = 1)
    /\ (pc = "_initialize") ~> (pc \in {"returned", "raised"})

\* the termination stops the run when it is first consulted: the first
\* generation has run, next() has not
C17_Witness ==
    /\ Returned
    /\ n_gen = Some(1)
    /\ Count(log, "_initialize") = 1
    /\ Count(log, "_each_iteration") = 1
    /\ Count(log, "next") = 0
    /\ log[Len(log) - 1] = "finalize"

-----------------------------------------------------------------------------
(* C18: the snapshot step seen from outside *)

\* C18: outside the snapshot step, that is in every state of the model, the
\* history of an initialized algorithm is a sequence, never None, and no step
\* changes the callback field.
C18_SnapshotAtomic ==
    /\ [](pc # "constructed" => history # None)
    /\ [][callback' = callback]_vars

-----------------------------------------------------------------------------
(* C19, C20: the Result and the optimum *)

\* the rows a field of the Result reports
Rows(a) == a.rows

\* C19: in every Result, when opt is not None, X, F, CV and G are the X, F, CV
\* and G of the individuals of Result.opt, in their order, also when
\* return_least_infeasible chose the optimum; and opt is None exactly when X,
\* F, CV and G are None.
C19_FieldsOfOpt ==
    Returned =>
        LET r == Val(res)
        IN  /\ r.opt # NoneObj =>
                  /\ Rows(r.X) = get(r.opt.inds, "X")
                  /\ Rows(r.F) = get(r.opt.inds, "F")
                  /\ Rows(r.CV) = get(r.opt.inds, "CV")
                  /\ Rows(r.G) = get(r.opt.inds, "G")
            /\ r.opt = NoneObj <=> Fields(r) = {NoArray}
            /\ r.opt = NoneObj <=> NoArray \in Fields(r)

\* return_least_infeasible reports the second of two infeasible individuals of
\* a problem with two objectives
C19_Witness ==
    /\ Returned
    /\ return_least_infeasible
    /\ Val(problem).n_obj = 2
    /\ len(pop) = 2
    /\ Feasible(pop) = {}
    /\ Val(res).opt = Population(<<pop.inds[2]>>)
    /\ Rows(Val(res).X) = <<pop.inds[2].X>>
    /\ Rows(Val(res).G) = <<pop.inds[2].G>>

\* positions after _set_optimum() of the current generation
OptSet == pc \in {"_each_iteration", "callback", "save_history", "do_continue",
                  "finalize", "result", "returned"}

\* C20: after _set_optimum() on a non-empty pop, opt is a non-empty
\* Population that does not mix feasibility: if pop has a feasible individual,
\* opt holds feasible individuals only (the non-dominated feasible ones, or
\* exactly one for one objective), else opt is exactly the first individual of
\* minimum CV; so no individual of opt is feasible exactly when pop has none.
C20_OptFeasibility ==
    (OptSet /\ len(pop) > 0) =>
        /\ opt.kind = "Population"
        /\ len(opt) >= 1
        /\ Feasible(pop) # {} =>
              /\ Feasible(opt) = 1..len(opt)
              /\ Elems(opt.inds) \subseteq {pop.inds[i] : i \in NonDominatedFeasible(pop)}
              /\ Val(problem).n_obj > 1 =>
                    Elems(opt.inds) = {pop.inds[i] : i \in NonDominatedFeasible(pop)}
              /\ Val(problem).n_obj = 1 => len(opt) = 1
        /\ Feasible(pop) = {} => opt.inds = <<pop.inds[FirstMinCV(pop)]>>
        /\ Feasible(opt) = {} <=> Feasible(pop) = {}

\* the termination reads an optimum that is the less infeasible of two
\* infeasible individuals
C20_Witness ==
    /\ pc = "do_continue"
    /\ len(pop) = 2
    /\ Feasible(pop) = {}
    /\ pop.inds[1].CV # pop.inds[2].CV
    /\ opt.inds = <<pop.inds[FirstMinCV(pop)]>>
    /\ Feasible(opt) = {}

====
